---------------------------- MODULE Spec2Model ----------------------------
(***************************************************************************)
(* Model of surrealengine_accelerator (src/src/lib.rs): the CBOR response  *)
(* navigator cbor_to_arrow and the value normalizer                         *)
(* <SurrealValue as Serialize>::serialize.                                  *)
(*                                                                         *)
(* Texts are sequences of one-character strings, so that formatting        *)
(* (format!("{}:{}"), {:?}) is concatenation and escaping of characters.   *)
(* A 128-bit integer is its two's complement bit pattern, eight 16-bit     *)
(* limbs, most significant first; a 64-bit integer is four limbs.          *)
(***************************************************************************)
EXTENDS Integers, Sequences, FiniteSets, TLC

VARIABLES
    root,       \* cbor_to_arrow: the decoded root Value (line 104)
    pc,         \* cbor_to_arrow: position in the function body
    responses,  \* cbor_to_arrow: root "result" array (line 142)
    first,      \* cbor_to_arrow: first_response_map (line 154)
    records,    \* cbor_to_arrow: records_arr (line 181)
    normRows,   \* the records as serialized through SurrealValue (197-203)
    inferred,   \* whether Vec::<FieldRef>::from_samples was invoked (202)
    outcome,    \* what cbor_to_arrow returns: None, a batch or an error
    val,        \* serialize: the wrapped Value, self.0
    norm,       \* serialize: what the serializer received for val
    val2,       \* a second wrapped Value
    norm2       \* what the serializer received for val2

vars == <<root, pc, responses, first, records, normRows, inferred, outcome,
          val, norm, val2, norm2>>

-----------------------------------------------------------------------------
(* Bounds of the model *)

\* longest text over Alphabet drawn as an input text
MaxTextLen == 2
\* longest array drawn as the inner value of a tag
MaxLen == 3
\* deepest nesting of tags drawn as an input
MaxTagDepth == 2
\* most entries of a drawn root map
MaxRootEntries == 2
\* most entries of a drawn statement map
MaxStmtEntries == 2
\* most rows of a drawn inner result
MaxRows == 2

-----------------------------------------------------------------------------
(* Texts *)

Alphabet == {"a", ":"}

RECURSIVE TextsOfLen(_)
TextsOfLen(n) ==
    IF n = 0 THEN {<<>>}
    ELSE {Append(t, c) : t \in TextsOfLen(n - 1), c \in Alphabet}

Texts == UNION {TextsOfLen(n) : n \in 0..MaxTextLen}

RECURSIVE Concat(_)
\* the concatenation of a sequence of texts
Concat(ts) == IF ts = <<>> THEN <<>> ELSE Head(ts) \o Concat(Tail(ts))

K_error   == <<"e","r","r","o","r">>
K_result  == <<"r","e","s","u","l","t">>
K_message == <<"m","e","s","s","a","g","e">>
K_code    == <<"c","o","d","e">>
K_status  == <<"s","t","a","t","u","s">>
K_detail  == <<"d","e","t","a","i","l">>
K_OK      == <<"O","K">>

-----------------------------------------------------------------------------
(* 128-bit and 64-bit integers *)

LimbBase == 2^16
HalfBase == 2^15
LimbMax  == LimbBase - 1

Zero128 == <<0, 0, 0, 0, 0, 0, 0, 0>>
I64_MAX == <<0, 0, 0, 0, HalfBase - 1, LimbMax, LimbMax, LimbMax>>
I64_MIN == <<LimbMax, LimbMax, LimbMax, LimbMax, HalfBase, 0, 0, 0>>
U64_MAX == <<0, 0, 0, 0, LimbMax, LimbMax, LimbMax, LimbMax>>
I128_MAX == <<HalfBase - 1, LimbMax, LimbMax, LimbMax, LimbMax, LimbMax, LimbMax, LimbMax>>
I128_MIN == <<HalfBase, 0, 0, 0, 0, 0, 0, 0>>

\* the i128 of a small integer n, |n| < 2^15
Small128(n) ==
    IF n >= 0 THEN <<0, 0, 0, 0, 0, 0, 0, n>>
    ELSE <<LimbMax, LimbMax, LimbMax, LimbMax, LimbMax, LimbMax, LimbMax, LimbBase + n>>

RECURSIVE AddCarry(_, _)
\* limbs + c (c in 0..1), wrapping
AddCarry(limbs, c) ==
    IF limbs = <<>> THEN <<>>
    ELSE LET n == Len(limbs)
             s == limbs[n] + c
         IN  Append(AddCarry(SubSeq(limbs, 1, n - 1), s \div LimbBase), s % LimbBase)

RECURSIVE SubBorrow(_, _)
\* limbs - b (b in 0..1), wrapping
SubBorrow(limbs, b) ==
    IF limbs = <<>> THEN <<>>
    ELSE LET n == Len(limbs)
             s == limbs[n] - b
         IN  Append(SubBorrow(SubSeq(limbs, 1, n - 1), IF s < 0 THEN 1 ELSE 0),
                    IF s < 0 THEN s + LimbBase ELSE s)

Succ128(v) == AddCarry(v, 1)
Pred128(v) == SubBorrow(v, 1)
Complement(limbs) == [k \in 1..Len(limbs) |-> LimbMax - limbs[k]]
\* wrapping negation
Neg128(v) == AddCarry(Complement(v), 1)

IsNeg128(v) == v[1] >= HalfBase

RECURSIVE LexLess(_, _)
\* unsigned comparison of two limb sequences of one length
LexLess(a, b) ==
    IF a = <<>> THEN FALSE
    ELSE IF Head(a) # Head(b) THEN Head(a) < Head(b)
    ELSE LexLess(Tail(a), Tail(b))

\* a < b as i128
Less128(a, b) ==
    IF IsNeg128(a) # IsNeg128(b) THEN IsNeg128(a) ELSE LexLess(a, b)

LessEq128(a, b) == ~Less128(b, a)

\* v as i64 / as u64: the low 64 bits
Low64(v) == SubSeq(v, 5, 8)
\* x as i128 for x an i64 (sign extension) and for x a u64 (zero extension)
I64To128(x) ==
    IF x[1] >= HalfBase THEN <<LimbMax, LimbMax, LimbMax, LimbMax>> \o x
    ELSE <<0, 0, 0, 0>> \o x
U64To128(x) == <<0, 0, 0, 0>> \o x

\* i64::try_from(v: i128)
TryFromI64(v) ==
    IF LessEq128(I64_MIN, v) /\ LessEq128(v, I64_MAX)
    THEN [ok |-> TRUE, v |-> Low64(v)] ELSE [ok |-> FALSE]

\* u64::try_from(v: i128)
TryFromU64(v) ==
    IF LessEq128(Zero128, v) /\ LessEq128(v, U64_MAX)
    THEN [ok |-> TRUE, v |-> Low64(v)] ELSE [ok |-> FALSE]

Digits == <<"0", "1", "2", "3", "4", "5", "6", "7", "8", "9">>

RECURSIVE DivMod10(_, _)
\* <<quotient limbs, remainder>> of (r * LimbBase^Len(limbs) + limbs) by 10
DivMod10(limbs, r) ==
    IF limbs = <<>> THEN <<(<<>>), r>>
    ELSE LET cur  == r * LimbBase + Head(limbs)
             rest == DivMod10(Tail(limbs), cur % 10)
         IN  <<(<<cur \div 10>>) \o rest[1], rest[2]>>

IsZeroLimbs(limbs) == \A k \in 1..Len(limbs) : limbs[k] = 0

RECURSIVE DecimalU(_)
\* the decimal digits of an unsigned limb sequence, "" for zero
DecimalU(limbs) ==
    IF IsZeroLimbs(limbs) THEN <<>>
    ELSE LET qr == DivMod10(limbs, 0)
         IN  Append(DecimalU(qr[1]), Digits[qr[2] + 1])

\* format!("{}", u) for an unsigned limb sequence
DisplayU(limbs) == IF IsZeroLimbs(limbs) THEN <<"0">> ELSE DecimalU(limbs)

\* format!("{}", i) for i: i128
Display128(v) ==
    IF IsNeg128(v) THEN <<"-">> \o DisplayU(Neg128(v)) ELSE DisplayU(v)

RECURSIVE DecimalNat(_)
DecimalNat(n) ==
    IF n = 0 THEN <<>> ELSE Append(DecimalNat(n \div 10), Digits[(n % 10) + 1])

\* format!("{}", n) for a small unsigned n (a tag number, a byte)
DisplayNat(n) == IF n = 0 THEN <<"0">> ELSE DecimalNat(n)

-----------------------------------------------------------------------------
(* cbor4ii::core::Value, the decoded value tree *)

VNull      == [kind |-> "Null"]
VBool(b)   == [kind |-> "Bool", b |-> b]
VInt(i)    == [kind |-> "Integer", i |-> i]
\* a float is modelled by its number of halves: VFloat(3) is 1.5
VFloat(h)  == [kind |-> "Float", f |-> h]
VBytes(bs) == [kind |-> "Bytes", bytes |-> bs]
VText(s)   == [kind |-> "Text", s |-> s]
VArray(a)  == [kind |-> "Array", a |-> a]
\* a map is its ordered sequence of <<key, value>> pairs
VMap(m)    == [kind |-> "Map", m |-> m]
VTag(n, v) == [kind |-> "Tag", tag |-> n, v |-> v]

(* What a serde Serializer receives *)

NNone      == [kind |-> "none"]
NBool(b)   == [kind |-> "bool", b |-> b]
NI64(x)    == [kind |-> "i64", x |-> x]
NU64(x)    == [kind |-> "u64", x |-> x]
NI128(x)   == [kind |-> "i128", x |-> x]
NF64(h)    == [kind |-> "f64", f |-> h]
NBytes(bs) == [kind |-> "bytes", bytes |-> bs]
NStr(s)    == [kind |-> "str", s |-> s]
NSeq(a)    == [kind |-> "seq", a |-> a]
\* a serialized map is its ordered sequence of <<key text, value>> entries
NMap(m)    == [kind |-> "map", m |-> m]

-----------------------------------------------------------------------------
(* format!("{:?}", v) for v: Value (derived Debug) *)

\* <str as Debug>: the escape of one character
EscapeDebug(c) ==
    IF c = "\"" THEN <<"\\", "\"">>
    ELSE IF c = "\\" THEN <<"\\", "\\">>
    ELSE <<c>>

\* format!("{:?}", s) for s: String
DebugStr(s) ==
    <<"\"">> \o Concat([k \in 1..Len(s) |-> EscapeDebug(s[k])]) \o <<"\"">>

\* format!("{:?}", f) for f: f64 with f = h / 2
DebugFloat(h) ==
    LET a == IF h < 0 THEN -h ELSE h
    IN  (IF h < 0 THEN <<"-">> ELSE <<>>) \o DisplayNat(a \div 2)
        \o <<".">> \o (IF a % 2 = 0 THEN <<"0">> ELSE <<"5">>)

RECURSIVE JoinComma(_)
\* the texts separated by ", "
JoinComma(ts) ==
    IF ts = <<>> THEN <<>>
    ELSE IF Len(ts) = 1 THEN ts[1]
    ELSE ts[1] \o <<",", " ">> \o JoinComma(Tail(ts))

RECURSIVE DebugValue(_)
DebugValue(v) ==
    CASE v.kind = "Null"    -> <<"N","u","l","l">>
      [] v.kind = "Bool"    -> <<"B","o","o","l","(">>
                               \o (IF v.b THEN <<"t","r","u","e">> ELSE <<"f","a","l","s","e">>)
                               \o <<")">>
      [] v.kind = "Integer" -> <<"I","n","t","e","g","e","r","(">> \o Display128(v.i) \o <<")">>
      [] v.kind = "Float"   -> <<"F","l","o","a","t","(">> \o DebugFloat(v.f) \o <<")">>
      [] v.kind = "Bytes"   -> <<"B","y","t","e","s","(","[">>
                               \o JoinComma([k \in 1..Len(v.bytes) |-> DisplayNat(v.bytes[k])])
                               \o <<"]",")">>
      [] v.kind = "Text"    -> <<"T","e","x","t","(">> \o DebugStr(v.s) \o <<")">>
      [] v.kind = "Array"   -> <<"A","r","r","a","y","(","[">>
                               \o JoinComma([k \in 1..Len(v.a) |-> DebugValue(v.a[k])])
                               \o <<"]",")">>
      [] v.kind = "Map"     -> <<"M","a","p","(","[">>
                               \o JoinComma([k \in 1..Len(v.m) |->
                                     <<"(">> \o DebugValue(v.m[k][1]) \o <<",", " ">>
                                     \o DebugValue(v.m[k][2]) \o <<")">>])
                               \o <<"]",")">>
      [] v.kind = "Tag"     -> <<"T","a","g","(">> \o DisplayNat(v.tag) \o <<",", " ">>
                               \o DebugValue(v.v) \o <<")">>

-----------------------------------------------------------------------------
(* <SurrealValue as Serialize>::serialize *)

SerializeIntegerU64First(v) ==
    LET u == TryFromU64(v)
        s == TryFromI64(v)
    IN  IF u.ok THEN NU64(u.v)
        ELSE IF s.ok THEN NI64(s.v)
        ELSE NI128(v)

\* Value::Integer(i): the narrowest of i64, u64, i128
SerializeInteger(v) ==
    LET s == TryFromI64(v)
        u == TryFromU64(v)
    IN  IF s.ok THEN NI64(s.v)
        ELSE IF u.ok THEN NU64(u.v)
        ELSE NI128(v)

MapKeyAlwaysDebug(k) == DebugValue(k)

\* the key_str of a map entry
MapKey(k) == IF k.kind = "Text" THEN k.s ELSE DebugValue(k)

IsRecordIdAnyLen(tag, value) ==
    tag = 8 /\ value.kind = "Array" /\ Len(value.a) >= 2

\* whether Tag(tag, value) is taken as a RecordID
IsRecordId(tag, value) ==
    tag = 8 /\ value.kind = "Array" /\ Len(value.a) = 2

RecordIdTextNoSeparator(arr) ==
    LET table == IF arr[1].kind = "Text" THEN arr[1].s ELSE <<>>
    IN  IF arr[2].kind = "Integer" THEN table \o Display128(arr[2].i)
        ELSE table \o (IF arr[2].kind = "Text" THEN arr[2].s ELSE <<>>)

RecordIdTextDebugId(arr) ==
    LET table == IF arr[1].kind = "Text" THEN arr[1].s ELSE <<>>
    IN  IF arr[2].kind = "Integer" THEN table \o <<":">> \o DebugValue(arr[2])
        ELSE table \o <<":">> \o (IF arr[2].kind = "Text" THEN arr[2].s ELSE <<>>)

\* the text of the RecordID [table, id]
RecordIdText(arr) ==
    LET table == IF arr[1].kind = "Text" THEN arr[1].s ELSE <<>>
    IN  IF arr[2].kind = "Integer" THEN table \o <<":">> \o Display128(arr[2].i)
        ELSE table \o <<":">> \o (IF arr[2].kind = "Text" THEN arr[2].s ELSE <<>>)

RECURSIVE serialize(_)
serialize(v) ==
    CASE v.kind = "Null"    -> NNone
      [] v.kind = "Bool"    -> NBool(v.b)
      [] v.kind = "Integer" -> SerializeInteger(v.i)
      [] v.kind = "Float"   -> NF64(v.f)
      [] v.kind = "Bytes"   -> NBytes(v.bytes)
      [] v.kind = "Text"    -> NStr(v.s)
      [] v.kind = "Array"   -> NSeq([k \in 1..Len(v.a) |-> serialize(v.a[k])])
      [] v.kind = "Map"     -> NMap([k \in 1..Len(v.m) |->
                                      <<MapKey(v.m[k][1]), serialize(v.m[k][2])>>])
      [] v.kind = "Tag"     -> IF IsRecordId(v.tag, v.v)
                               THEN NStr(RecordIdText(v.v.a))
                               ELSE serialize(v.v)

-----------------------------------------------------------------------------
(* The message texts of cbor_to_arrow *)

M_ServerErrorOpen ==
    <<"S","u","r","r","e","a","l","D","B"," ","E","r","r","o","r"," ","(">>
M_ServerErrorMid ==
    <<")",":"," ">>
M_ServerErrorPlain ==
    <<"S","u","r","r","e","a","l","D","B"," ","E","r","r","o","r",":"," ">>
M_Question ==
    <<"?">>
M_RootNotMap ==
    <<"C","B","O","R"," ","R","o","o","t"," ","i","s"," ","n","o","t"," ","a"," ","M","a","p">>
M_RootResultNotArray ==
    <<"R","o","o","t"," ","'","r","e","s","u","l","t","'"," ","i","s"," ","n","o","t"," ","a","n"," ","a","r","r","a","y">>
M_RootResultMissing ==
    <<"R","o","o","t"," ","'","r","e","s","u","l","t","'"," ","k","e","y"," ","n","o","t"," ","f","o","u","n","d">>
M_FirstNotMap ==
    <<"F","i","r","s","t"," ","r","e","s","p","o","n","s","e"," ","i","s"," ","n","o","t"," ","a"," ","M","a","p">>
M_StatusOpen ==
    <<"D","a","t","a","b","a","s","e"," ","r","e","t","u","r","n","e","d"," ","e","r","r","o","r"," ","s","t","a","t","u","s"," ","'">>
M_StatusMid ==
    <<"'",":"," ">>
M_UnknownError ==
    <<"U","n","k","n","o","w","n"," ","e","r","r","o","r">>
M_InnerNotArray ==
    <<"I","n","n","e","r"," ","'","r","e","s","u","l","t","'"," ","i","s"," ","n","o","t"," ","a","n"," ","a","r","r","a","y">>
M_InnerMissing ==
    <<"I","n","n","e","r"," ","'","r","e","s","u","l","t","'"," ","k","e","y"," ","n","o","t"," ","f","o","u","n","d","."," ","A","v","a","i","l","a","b","l","e"," ","k","e","y","s",":"," ">>
M_SchemaInference ==
    <<"S","c","h","e","m","a"," ","i","n","f","e","r","e","n","c","e"," ","e","r","r","o","r",":"," ">>
M_ArrayConversion ==
    <<"A","r","r","o","w"," ","a","r","r","a","y"," ","c","o","n","v","e","r","s","i","o","n"," ","e","r","r","o","r",":"," ">>
M_BatchCreation ==
    <<"R","e","c","o","r","d","B","a","t","c","h"," ","c","r","e","a","t","i","o","n"," ","e","r","r","o","r",":"," ">>

-----------------------------------------------------------------------------
(* cbor_to_arrow: lookups in a decoded map *)

Min(S) == CHOOSE x \in S : \A y \in S : x <= y

\* map.iter().find(|(k, _)| matches!(k, Value::Text(s) if s == n1 || s == n2)):
\* the index of the first entry whose key is one of the texts names, 0 for None
FindKey(m, names) ==
    LET hits == {k \in 1..Len(m) : m[k][1].kind = "Text" /\ m[k][1].s \in names}
    IN  IF hits = {} THEN 0 ELSE Min(hits)

AsMapThroughTag(v) ==
    IF v.kind = "Map" THEN [some |-> TRUE, m |-> v.m]
    ELSE IF v.kind = "Tag" /\ v.v.kind = "Map" THEN [some |-> TRUE, m |-> v.v.m]
    ELSE [some |-> FALSE]

\* if let Value::Map(ref map) = v
AsMap(v) ==
    IF v.kind = "Map" THEN [some |-> TRUE, m |-> v.m] ELSE [some |-> FALSE]

TopLevelErrorUnlessResult(v) ==
    LET r == AsMap(v)
    IN  IF r.some /\ FindKey(r.m, {K_result}) = 0 THEN FindKey(r.m, {K_error}) ELSE 0

\* the index of the root's "error" entry, 0 when the root is no map or has none
TopLevelError(v) ==
    LET r == AsMap(v)
    IN  IF r.some THEN FindKey(r.m, {K_error}) ELSE 0

\* the Err built from the value of the top-level "error" entry
ServerError(e) ==
    IF e.kind = "Map"
    THEN LET im == FindKey(e.m, {K_message})
             ic == FindKey(e.m, {K_code})
             message == IF im = 0 THEN DebugValue(e)
                        ELSE IF e.m[im][2].kind = "Text" THEN e.m[im][2].s
                        ELSE DebugValue(e.m[im][2])
             code == IF ic = 0 THEN M_Question ELSE DebugValue(e.m[ic][2])
         IN  [kind |-> "ServerError", code |-> code, message |-> message,
              text |-> M_ServerErrorOpen \o code \o M_ServerErrorMid \o message]
    ELSE [kind |-> "ServerError", code |-> <<>>, message |-> DebugValue(e),
          text |-> M_ServerErrorPlain \o DebugValue(e)]

Failure(k, t) == [kind |-> k, text |-> t]

StatusFailsAnyText(st) == st.kind = "Text"

\* whether the value of the "status" entry makes the statement an error
StatusFails(st) == st.kind = "Text" /\ st.s # K_OK

\* the detail of a failed statement
StatementDetail(m) ==
    LET i == FindKey(m, {K_detail, K_message})
    IN  IF i = 0 THEN M_UnknownError ELSE DebugValue(m[i][2])

\* the Err of a statement whose status is the text status
StatementError(status, m) ==
    [kind |-> "StatementError", status |-> status, detail |-> StatementDetail(m),
     text |-> M_StatusOpen \o status \o M_StatusMid \o StatementDetail(m)]

\* format!("{:?}", keys) for keys: Vec<String>
DebugKeys(m) ==
    <<"[">> \o JoinComma([k \in 1..Len(m) |-> DebugStr(DebugValue(m[k][1]))]) \o <<"]">>

NoneOutcome == [kind |-> "None"]
Pending == [kind |-> "Pending"]

-----------------------------------------------------------------------------
(* The decoded roots drawn as inputs of cbor_to_arrow *)

\* the sequences over S of length n
SeqsOfLen(S, n) == [1..n -> S]

\* the sequences over S of length at most n
SeqsUpTo(S, n) == UNION {SeqsOfLen(S, k) : k \in 0..n}

T_a   == VText(<<"a">>)
T_id  == VText(<<"i","d">>)
T_ERR == VText(<<"E","R","R">>)
T_bad == VText(<<"b","a","d">>)
T_msg == VText(<<"m","s","g">>)
RecId_a17 == VTag(8, VArray(<<T_a, VInt(Small128(17))>>))

RowPool ==
    { VMap(<< <<T_a, VInt(Small128(1))>> >>),
      VMap(<< <<T_id, RecId_a17>>, <<VInt(Small128(1)), T_a>> >>) }

\* the values drawn for a statement's "result" entry
InnerResults == {VArray(rs) : rs \in SeqsUpTo(RowPool, MaxRows)} \cup {VNull}

StatusPool == {VText(K_OK), T_ERR, VInt(Small128(5)), VNull, VBool(FALSE)}

StmtEntryPool ==
    {<<VText(K_status), s>> : s \in StatusPool}
    \cup {<<VText(K_detail), d>> : d \in {T_bad, VInt(Small128(7))}}
    \cup {<<VText(K_message), T_msg>>}
    \cup {<<VText(K_result), r>> : r \in InnerResults}

OkStatement ==
    VMap(<< <<VText(K_status), VText(K_OK)>>,
            <<VText(K_result), VArray(<<VMap(<< <<T_a, VInt(Small128(1))>> >>)>>)>> >>)
ErrStatement ==
    VMap(<< <<VText(K_status), T_ERR>>, <<VText(K_detail), T_bad>> >>)

\* the root {"result": [s] \o rest}
StatementRoot(s, rest) == VMap(<< <<VText(K_result), VArray(<<s>> \o rest)>> >>)

ErrorPool ==
    { VMap(<< <<VText(K_code), VInt(Small128(-1))>>, <<VText(K_message), T_msg>> >>),
      VMap(<< <<VText(K_message), VInt(Small128(7))>> >>),
      VMap(<<>>),
      T_bad }

RootEntryPool ==
    {<<VText(K_error), e>> : e \in ErrorPool}
    \cup {<<VText(K_result), r>> :
            r \in {VNull, VArray(<<>>), VArray(<<OkStatement>>), VArray(<<ErrStatement>>)}}
    \cup {<<T_id, VInt(Small128(1))>>, <<VInt(Small128(1)), VNull>>}

ErrorMap  == VMap(<< <<VText(K_error), T_bad>> >>)
ResultMap == VMap(<< <<VText(K_result), VArray(<<OkStatement>>)>> >>)

NonMapRoots ==
    { VNull, VBool(TRUE), VInt(Small128(0)), VFloat(3), VBytes(<<1, 255>>),
      VText(K_error), VText(K_result),
      VArray(<<>>), VArray(<<ErrorMap>>), VArray(<<ResultMap>>),
      VTag(8, ErrorMap), VTag(8, ResultMap), VTag(0, ErrorMap), VTag(0, ResultMap),
      VTag(8, VArray(<<T_a, T_a>>)) }

\* the roots drawn: the non-maps, the root maps of at most MaxRootEntries
\* entries in every order, and the roots {"result": [s]}, {"result": [s, ErrStatement]}
\* for s a non-map or a map of at most MaxStmtEntries entries in every order
IsRoot(r) ==
    \/ r \in NonMapRoots
    \/ \E n \in 0..MaxRootEntries : \E es \in SeqsOfLen(RootEntryPool, n) : r = VMap(es)
    \/ \E rest \in {<<>>, <<ErrStatement>>} :
          \/ \E s \in {VNull, VArray(<<>>)} : r = StatementRoot(s, rest)
          \/ \E n \in 0..MaxStmtEntries : \E es \in SeqsOfLen(StmtEntryPool, n) :
                r = StatementRoot(VMap(es), rest)

-----------------------------------------------------------------------------
(* cbor_to_arrow, from the decoded root to the returned value *)

Idle == val = VNull /\ norm = Pending /\ val2 = VNull /\ norm2 = Pending

Init ==
    /\ IsRoot(root)
    /\ pc = "check_error"
    /\ responses = <<>>
    /\ first = <<>>
    /\ records = <<>>
    /\ normRows = <<>>
    /\ inferred = FALSE
    /\ outcome = Pending
    /\ Idle

Return(o) ==
    /\ outcome' = o
    /\ pc' = "done"

\* lines 111-132
CheckError ==
    /\ pc = "check_error"
    /\ LET i == TopLevelError(root)
       IN  IF i # 0
           THEN Return(ServerError(AsMap(root).m[i][2]))
           ELSE pc' = "root_result" /\ UNCHANGED outcome
    /\ UNCHANGED <<root, responses, first, records, normRows, inferred,
                   val, norm, val2, norm2>>

\* lines 134-146
FindRootResult ==
    /\ pc = "root_result"
    /\ LET r == AsMap(root)
           i == IF r.some THEN FindKey(r.m, {K_result}) ELSE 0
       IN  IF ~r.some
           THEN Return(Failure("MalformedEnvelope", M_RootNotMap)) /\ UNCHANGED responses
           ELSE IF i = 0
           THEN Return(Failure("MissingResultArray", M_RootResultMissing))
                /\ UNCHANGED responses
           ELSE IF r.m[i][2].kind # "Array"
           THEN Return(Failure("ResultNotArray", M_RootResultNotArray))
                /\ UNCHANGED responses
           ELSE responses' = r.m[i][2].a /\ pc' = "first_response" /\ UNCHANGED outcome
    /\ UNCHANGED <<root, first, records, normRows, inferred,
                   val, norm, val2, norm2>>

\* lines 148-158
FirstResponse ==
    /\ pc = "first_response"
    /\ IF responses = <<>>
       THEN Return(NoneOutcome) /\ UNCHANGED first
       ELSE IF ~AsMap(responses[1]).some
       THEN Return(Failure("StatementNotMap", M_FirstNotMap)) /\ UNCHANGED first
       ELSE first' = AsMap(responses[1]).m /\ pc' = "status" /\ UNCHANGED outcome
    /\ UNCHANGED <<root, responses, records, normRows, inferred,
                   val, norm, val2, norm2>>

\* lines 160-174
CheckStatus ==
    /\ pc = "status"
    /\ LET i == FindKey(first, {K_status})
       IN  IF i # 0 /\ StatusFails(first[i][2])
           THEN Return(StatementError(first[i][2].s, first))
           ELSE pc' = "inner_result" /\ UNCHANGED outcome
    /\ UNCHANGED <<root, responses, first, records, normRows, inferred,
                   val, norm, val2, norm2>>

\* lines 176-194
InnerResult ==
    /\ pc = "inner_result"
    /\ LET i == FindKey(first, {K_result})
       IN  IF i = 0
           THEN Return([kind |-> "MissingInnerResult",
                        text |-> M_InnerMissing \o DebugKeys(first)])
                /\ UNCHANGED records
           ELSE IF first[i][2].kind # "Array"
           THEN Return(Failure("InnerResultNotArray", M_InnerNotArray))
                /\ UNCHANGED records
           ELSE IF first[i][2].a = <<>>
           THEN Return(NoneOutcome) /\ UNCHANGED records
           ELSE records' = first[i][2].a /\ pc' = "infer" /\ UNCHANGED outcome
    /\ UNCHANGED <<root, responses, first, normRows, inferred,
                   val, norm, val2, norm2>>

\* lines 196-203: the records are wrapped and sampled through serialize; the
\* inferencer, an external library, answers with fields or with an error
InferSchema ==
    /\ pc = "infer"
    /\ normRows' = [k \in 1..Len(records) |-> serialize(records[k])]
    /\ inferred' = TRUE
    /\ \E ok \in BOOLEAN :
          IF ok THEN pc' = "convert" /\ UNCHANGED outcome
          ELSE Return(Failure("SchemaInferenceError", M_SchemaInference))
    /\ UNCHANGED <<root, responses, first, records, val, norm, val2, norm2>>

\* lines 205-207
ToArrow ==
    /\ pc = "convert"
    /\ \E ok \in BOOLEAN :
          IF ok THEN pc' = "batch" /\ UNCHANGED outcome
          ELSE Return(Failure("ArrayConversionError", M_ArrayConversion))
    /\ UNCHANGED <<root, responses, first, records, normRows, inferred,
                   val, norm, val2, norm2>>

\* lines 209-214
BuildBatch ==
    /\ pc = "batch"
    /\ \E ok \in BOOLEAN :
          IF ok THEN Return([kind |-> "Batch", rows |-> normRows])
          ELSE Return(Failure("BatchConstructionError", M_BatchCreation))
    /\ UNCHANGED <<root, responses, first, records, normRows, inferred,
                   val, norm, val2, norm2>>

Next ==
    \/ CheckError
    \/ FindRootResult
    \/ FirstResponse
    \/ CheckStatus
    \/ InnerResult
    \/ InferSchema
    \/ ToArrow
    \/ BuildBatch

Spec == Init /\ [][Next]_vars

-----------------------------------------------------------------------------
(* The values drawn as inputs of serialize *)

IntPool ==
    { Small128(0), Small128(1), Small128(-1), Small128(17), Small128(-17),
      I64_MAX, Succ128(I64_MAX), I64_MIN, Pred128(I64_MIN),
      U64_MAX, Succ128(U64_MAX), I128_MAX, I128_MIN }

T_17 == VText(<<"1","7">>)

Atoms ==
    {VNull, VBool(TRUE), VBool(FALSE)}
    \cup {VInt(i) : i \in IntPool}
    \cup {VFloat(0), VFloat(3), VFloat(-5)}
    \cup {VBytes(<<>>), VBytes(<<1, 255>>)}
    \cup {VText(t) : t \in Texts}

ElemPool ==
    {T_a, VInt(Small128(17)), VNull, RecId_a17, VMap(<< <<VInt(Small128(1)), VNull>> >>)}

\* arrays of every length up to MaxLen
Arrays == {VArray(es) : es \in SeqsUpTo(ElemPool, MaxLen)}

TablePool == {VText(t) : t \in Texts} \cup {VNull, VInt(Small128(5))}

IdPool ==
    {VText(t) : t \in Texts} \cup {T_17}
    \cup {VInt(i) : i \in IntPool}
    \cup {VNull, VBool(TRUE), VFloat(3), VArray(<<>>)}

\* the two-element arrays [table, id]
RecordIdArrays == {VArray(<<t, i>>) : t \in TablePool, i \in IdPool}

KeyPool == {T_a, T_id, VInt(Small128(1)), VNull, VArray(<<T_a>>)}
ValPool == {VInt(Small128(17)), T_a, RecId_a17, VTag(8, VArray(<<T_a>>))}

Maps == {VMap(es) : es \in SeqsUpTo(KeyPool \X ValPool, 2)}

Untagged == Atoms \cup Arrays \cup RecordIdArrays \cup Maps

TagNums == {8, 9}

RECURSIVE Wrap(_, _)
\* v under the tags ns, the first outermost
Wrap(ns, v) == IF ns = <<>> THEN v ELSE VTag(Head(ns), Wrap(Tail(ns), v))

\* the values drawn: the untagged values under at most MaxTagDepth tags
IsSerializeInput(v) ==
    \E d \in 0..MaxTagDepth : \E ns \in SeqsOfLen(TagNums, d) : \E u \in Untagged :
        v = Wrap(ns, u)

NavigatorIdle ==
    /\ root = VNull
    /\ responses = <<>>
    /\ first = <<>>
    /\ records = <<>>
    /\ normRows = <<>>
    /\ inferred = FALSE
    /\ outcome = Pending

InitSerialize ==
    /\ IsSerializeInput(val)
    /\ pc = "wrapped"
    /\ norm = Pending
    /\ val2 = VNull
    /\ norm2 = Pending
    /\ NavigatorIdle

\* SurrealValue(val).serialize(serializer), lines 19-87
Serialize ==
    /\ pc = "wrapped"
    /\ norm' = serialize(val)
    /\ pc' = "serialized"
    /\ UNCHANGED <<root, responses, first, records, normRows, inferred, outcome,
                   val, val2, norm2>>

\* serialize of a second, independent SurrealValue
SerializeSecond ==
    /\ pc = "serialized"
    /\ norm2' = serialize(val2)
    /\ pc' = "both_serialized"
    /\ UNCHANGED <<root, responses, first, records, normRows, inferred, outcome,
                   val, norm, val2>>

NextSerialize == Serialize

SpecSerialize == InitSerialize /\ [][NextSerialize]_vars

\* the RecordID values Tag(8, [table, id]) drawn in pairs
PairTablePool == {VText(t) : t \in Texts} \cup {VNull}
PairIdPool ==
    {VText(t) : t \in Texts} \cup {T_17}
    \cup {VInt(Small128(17)), VInt(Small128(-17)), VNull}
RecordIds == {VTag(8, VArray(<<t, i>>)) : t \in PairTablePool, i \in PairIdPool}

InitPair ==
    /\ val \in RecordIds
    /\ val2 \in RecordIds
    /\ pc = "wrapped"
    /\ norm = Pending
    /\ norm2 = Pending
    /\ NavigatorIdle

NextPair == Serialize \/ SerializeSecond

SpecPair == InitPair /\ [][NextPair]_vars

-----------------------------------------------------------------------------
(* What the claims speak of, stated on the decoded values themselves *)

\* v is a map with an entry whose key is the text name
HasTextKey(v, name) ==
    v.kind = "Map" /\ \E k \in 1..Len(v.m) : v.m[k][1] = VText(name)

\* the value of the first entry of map v whose key is the text name
EntryOf(v, name) ==
    LET k == CHOOSE j \in 1..Len(v.m) :
                 /\ v.m[j][1] = VText(name)
                 /\ \A h \in 1..(j - 1) : v.m[h][1] # VText(name)
    IN  v.m[k][2]

\* the root is a map without "error" whose "result" is an array
HasResultArray ==
    /\ root.kind = "Map"
    /\ ~HasTextKey(root, K_error)
    /\ HasTextKey(root, K_result)
    /\ EntryOf(root, K_result).kind = "Array"

\* the root has a first statement, and it is a map
HasFirstStatement ==
    /\ HasResultArray
    /\ EntryOf(root, K_result).a # <<>>
    /\ EntryOf(root, K_result).a[1].kind = "Map"

FirstStatement == EntryOf(root, K_result).a[1]

Returned == pc = "done"

\* C1: a root map with a text key "error" always ends in ServerError, whatever
\* else it holds and wherever "error" stands; navigation never goes past the
\* check, nothing is inferred, neither a batch nor None is returned.
C1_ServerErrorWins ==
    HasTextKey(root, K_error) =>
        /\ pc \in {"check_error", "done"}
        /\ ~inferred
        /\ Returned => /\ outcome.kind = "ServerError"
                       /\ outcome.message \in
                            {T_msg.s, DebugValue(VInt(Small128(7))),
                             DebugValue(VMap(<<>>)), DebugValue(T_bad)}

\* an error entry after a well-formed result entry with an OK statement and rows
C1_Witness ==
    /\ Returned
    /\ root = VMap(<< <<VText(K_result), VArray(<<OkStatement>>)>>,
                      <<VText(K_error), T_bad>> >>)
    /\ outcome.kind = "ServerError"

\* C2 (as stated): with a "status" entry in the first statement, every status
\* other than the text "OK", non-text ones included, ends in StatementError.
C2_NonOkStatusFails ==
    (/\ Returned
     /\ HasFirstStatement
     /\ HasTextKey(FirstStatement, K_status)
     /\ EntryOf(FirstStatement, K_status) # VText(K_OK))
    => outcome.kind = "StatementError"

\* C3 (as stated): a text status s other than "OK" with a text "detail" d ends
\* in a StatementError whose status is s and whose detail is d, verbatim.
C3_StatementErrorVerbatim ==
    (/\ Returned
     /\ HasFirstStatement
     /\ HasTextKey(FirstStatement, K_status)
     /\ EntryOf(FirstStatement, K_status).kind = "Text"
     /\ EntryOf(FirstStatement, K_status) # VText(K_OK)
     /\ HasTextKey(FirstStatement, K_detail)
     /\ EntryOf(FirstStatement, K_detail).kind = "Text")
    => /\ outcome.kind = "StatementError"
       /\ outcome.status = EntryOf(FirstStatement, K_status).s
       /\ outcome.detail = EntryOf(FirstStatement, K_detail).s

\* the first statement passes the status check and has no rows
ZeroRows ==
    /\ HasFirstStatement
    /\ HasTextKey(FirstStatement, K_status) =>
           EntryOf(FirstStatement, K_status) = VText(K_OK)
    /\ HasTextKey(FirstStatement, K_result)
    /\ EntryOf(FirstStatement, K_result) = VArray(<<>>)

ZeroStatements == HasResultArray /\ EntryOf(root, K_result).a = <<>>

\* C4: zero statements and zero rows return None: no error, and the schema
\* inferencer is never invoked.
C4_EmptyIsNone ==
    (ZeroStatements \/ ZeroRows) =>
        /\ ~inferred
        /\ pc \notin {"infer", "convert", "batch"}
        /\ Returned => outcome = NoneOutcome

\* {"result": [{"status": "OK", "result": []}]} has returned None
C4_Witness ==
    /\ Returned
    /\ root = VMap(<< <<VText(K_result),
                        VArray(<<VMap(<< <<VText(K_status), VText(K_OK)>>,
                                         <<VText(K_result), VArray(<<>>)>> >>)>>)>> >>)
    /\ ZeroRows
    /\ outcome = NoneOutcome

\* C5: a root that is no map ends in MalformedEnvelope, "CBOR Root is not a
\* Map", also when it wraps a map holding "error" or "result".
C5_NonMapRootMalformed ==
    root.kind # "Map" =>
        /\ pc \in {"check_error", "root_result", "done"}
        /\ Returned => outcome = [kind |-> "MalformedEnvelope", text |-> M_RootNotMap]

\* a tag 8 around {"error": ...} has been refused as malformed
C5_Witness ==
    /\ Returned
    /\ root = VTag(8, ErrorMap)
    /\ outcome.kind = "MalformedEnvelope"

-----------------------------------------------------------------------------
(* Claims about serialize *)

Serialized == pc = "serialized"

\* the i128 an emitted integer stands for
NumericValue(n) ==
    CASE n.kind = "i64"  -> I64To128(n.x)
      [] n.kind = "u64"  -> U64To128(n.x)
      [] n.kind = "i128" -> n.x

\* C6: an Integer v is emitted as i64 when i64::MIN <= v <= i64::MAX, as u64
\* when i64::MAX < v <= u64::MAX, as i128 otherwise, and always with value v;
\* i64::MAX + 1 is the u64 0x8000000000000000 and i64::MIN - 1 is an i128.
C6_NarrowestWidth ==
    (Serialized /\ val.kind = "Integer") =>
        LET v == val.i
        IN  /\ norm.kind =
                 (IF LessEq128(I64_MIN, v) /\ LessEq128(v, I64_MAX) THEN "i64"
                  ELSE IF Less128(I64_MAX, v) /\ LessEq128(v, U64_MAX) THEN "u64"
                  ELSE "i128")
            /\ NumericValue(norm) = v
            /\ v = Succ128(I64_MAX) => norm = NU64(<<HalfBase, 0, 0, 0>>)
            /\ v = U64_MAX => norm = NU64(<<LimbMax, LimbMax, LimbMax, LimbMax>>)
            /\ v = Pred128(I64_MIN) => norm.kind = "i128"
            /\ v = Succ128(U64_MAX) => norm.kind = "i128"
            /\ v = Small128(-1) => norm = NI64(<<LimbMax, LimbMax, LimbMax, LimbMax>>)

\* i64::MAX + 1 has been emitted as a u64
C6_Witness ==
    /\ Serialized
    /\ val = VInt(Succ128(I64_MAX))
    /\ norm.kind = "u64"

\* Tag(8, [table, id])
RecognizedId(v) ==
    v.kind = "Tag" /\ v.tag = 8 /\ v.v.kind = "Array" /\ Len(v.v.a) = 2

IsDigit(c) == \E d \in 1..10 : Digits[d] = c
DigitValue(c) == (CHOOSE d \in 1..10 : Digits[d] = c) - 1

\* an optional "-" and digits, no leading zero, no "-0"
IsCanonicalDecimal(t) ==
    LET ds == IF t # <<>> /\ t[1] = "-" THEN Tail(t) ELSE t
    IN  /\ ds # <<>>
        /\ \A k \in 1..Len(ds) : IsDigit(ds[k])
        /\ ds[1] = "0" => (Len(ds) = 1 /\ ds = t)

RECURSIVE MulAdd(_, _, _)
\* limbs * m + c, wrapping
MulAdd(limbs, m, c) ==
    IF limbs = <<>> THEN <<>>
    ELSE LET n == Len(limbs)
             s == limbs[n] * m + c
         IN  Append(MulAdd(SubSeq(limbs, 1, n - 1), m, s \div LimbBase), s % LimbBase)

RECURSIVE ParseDigits(_, _)
ParseDigits(ds, acc) ==
    IF ds = <<>> THEN acc
    ELSE ParseDigits(Tail(ds), MulAdd(acc, 10, DigitValue(Head(ds))))

\* the i128 a canonical decimal text denotes
ParseDecimal(t) ==
    IF t[1] = "-" THEN Neg128(ParseDigits(Tail(t), Zero128)) ELSE ParseDigits(t, Zero128)

\* C7: Tag(8, [table, id]) serializes to the one text table ":" id, where a
\* text id stands verbatim, an integer id as its decimal rendering, and a
\* non-text table or an id neither text nor integer as the empty text.
C7_RecordIdText ==
    (Serialized /\ RecognizedId(val)) =>
        LET table == val.v.a[1]
            id    == val.v.a[2]
            tpart == IF table.kind = "Text" THEN table.s ELSE <<>>
            rest  == SubSeq(norm.s, Len(tpart) + 2, Len(norm.s))
        IN  /\ norm.kind = "str"
            /\ Len(norm.s) >= Len(tpart) + 1
            /\ SubSeq(norm.s, 1, Len(tpart)) = tpart
            /\ norm.s[Len(tpart) + 1] = ":"
            /\ id.kind = "Text" => rest = id.s
            /\ id.kind = "Integer" => IsCanonicalDecimal(rest) /\ ParseDecimal(rest) = id.i
            /\ id.kind \notin {"Text", "Integer"} => rest = <<>>
            /\ val = VTag(8, VArray(<<T_a, T_17>>)) => norm = NStr(<<"a", ":", "1", "7">>)
            /\ val = RecId_a17 => norm = NStr(<<"a", ":", "1", "7">>)
            /\ val = VTag(8, VArray(<<T_a, VInt(Small128(-17))>>))
                 => norm = NStr(<<"a", ":", "-", "1", "7">>)

\* tag 8 on ["a", 17] has been serialized to "a:17"
C7_Witness ==
    /\ Serialized
    /\ val = RecId_a17
    /\ norm = NStr(<<"a", ":", "1", "7">>)

RECURSIVE StripTags(_)
\* v without the unrecognized tags at its top
StripTags(v) ==
    IF v.kind = "Tag" /\ ~RecognizedId(v) THEN StripTags(v.v) ELSE v

\* C8: a tag that is no recognized record identifier (another number, or 8 on
\* a non-array or on an array of length other than 2) is discarded: the value
\* serializes as its inner value does, recursively, and an inner array stays
\* a sequence of the same length.
C8_UnrecognizedTagDiscarded ==
    (Serialized /\ val.kind = "Tag" /\ ~RecognizedId(val)) =>
        /\ norm = serialize(val.v)
        /\ norm = serialize(StripTags(val))
        /\ val.v.kind = "Array" => norm.kind = "seq" /\ Len(norm.a) = Len(val.v.a)
        /\ val.v.kind = "Text" => norm = NStr(val.v.s)
        /\ val.v.kind = "Null" => norm = NNone

\* tag 8 on a three-element array has been serialized as the array
C8_Witness ==
    /\ Serialized
    /\ val = VTag(8, VArray(<<T_a, VInt(Small128(17)), VNull>>))
    /\ norm.kind = "seq"
    /\ Len(norm.a) = 3

RECURSIVE ReadBack(_)
\* a serialized value read as a decoded Value
ReadBack(n) ==
    CASE n.kind = "none"  -> VNull
      [] n.kind = "bool"  -> VBool(n.b)
      [] n.kind = "i64"   -> VInt(I64To128(n.x))
      [] n.kind = "u64"   -> VInt(U64To128(n.x))
      [] n.kind = "i128"  -> VInt(n.x)
      [] n.kind = "f64"   -> VFloat(n.f)
      [] n.kind = "bytes" -> VBytes(n.bytes)
      [] n.kind = "str"   -> VText(n.s)
      [] n.kind = "seq"   -> VArray([k \in 1..Len(n.a) |-> ReadBack(n.a[k])])
      [] n.kind = "map"   -> VMap([k \in 1..Len(n.m) |->
                                     <<VText(n.m[k][1]), ReadBack(n.m[k][2])>>])

RECURSIVE InGrammar(_)
\* v has no tag and only text keys
InGrammar(v) ==
    CASE v.kind = "Array" -> \A k \in 1..Len(v.a) : InGrammar(v.a[k])
      [] v.kind = "Map"   -> \A k \in 1..Len(v.m) :
                                 v.m[k][1].kind = "Text" /\ InGrammar(v.m[k][2])
      [] v.kind = "Tag"   -> FALSE
      [] OTHER            -> TRUE

\* C9: serializing what was serialized, read back as a value, gives the same
\* again; a value without tags and with text keys only reads back as itself.
C9_Idempotent ==
    Serialized =>
        /\ serialize(ReadBack(norm)) = norm
        /\ InGrammar(val) => ReadBack(norm) = val

\* a map with a non-text key and a record identifier has been serialized
C9_Witness ==
    /\ Serialized
    /\ val = VMap(<< <<VInt(Small128(1)), RecId_a17>>, <<T_a, T_a>> >>)
    /\ norm = NMap(<< <<DebugValue(VInt(Small128(1))), NStr(<<"a", ":", "1", "7">>)>>,
                      <<(<<"a">>), NStr(<<"a">>)>> >>)

BothSerialized == pc = "both_serialized"
TableOf(v) == v.v.a[1]
IdOf(v) == v.v.a[2]
HasColon(t) == \E k \in 1..Len(t) : t[k] = ":"

\* C10 (as stated): two recognized record identifiers that differ in table or
\* in id serialize to different texts.
C10_Lossless ==
    (/\ BothSerialized
     /\ RecognizedId(val) /\ RecognizedId(val2)
     /\ (TableOf(val) # TableOf(val2) \/ IdOf(val) # IdOf(val2)))
    => norm # norm2

\* C10 (amended): two recognized record identifiers with text tables, and with
\* ids both integers or both texts under tables free of ":", that differ in
\* table or in id serialize to different texts.
C10_LosslessAmended ==
    (/\ BothSerialized
     /\ RecognizedId(val) /\ RecognizedId(val2)
     /\ TableOf(val).kind = "Text" /\ TableOf(val2).kind = "Text"
     /\ \/ IdOf(val).kind = "Integer" /\ IdOf(val2).kind = "Integer"
        \/ /\ IdOf(val).kind = "Text" /\ IdOf(val2).kind = "Text"
           /\ ~HasColon(TableOf(val).s) /\ ~HasColon(TableOf(val2).s)
     /\ (TableOf(val) # TableOf(val2) \/ IdOf(val) # IdOf(val2)))
    => norm # norm2

\* "a":"a" and "aa":"" have been serialized, to different texts
C10_Witness ==
    /\ BothSerialized
    /\ val = VTag(8, VArray(<<T_a, T_a>>))
    /\ val2 = VTag(8, VArray(<<VText(<<"a", "a">>), VText(<<>>)>>))
    /\ norm = NStr(<<"a", ":", "a">>)
    /\ norm2 = NStr(<<"a", "a", ":">>)

=============================================================================
